---- MODULE Spec2Model ----
(***************************************************************************)
(* Model of KeyRingService (src/src/keyring/service.ts): the signing       *)
(* request protocol.  One sign request is in flight at a time; it is split *)
(* at its suspension points (waitApprove, the signer call).  The KeyRing   *)
(* class (./keyring) is not part of the sources: the few facts used about  *)
(* it (status gate of getKey / sign, lock, unlock, restore) come from the  *)
(* specification.                                                          *)
(***************************************************************************)
EXTENDS Integers, Sequences, FiniteSets, TLC

\* ---- bounds -------------------------------------------------------------
MaxEntries == 2
MaxContent == 1
MaxRequests == 1

\* ---- values -------------------------------------------------------------
Undef == "undefined"

Entries == 1..MaxEntries

ChainIds == {"cosmoshub-4", "Oraichain"}

\* chainsService.getChainCoinType(chainId)
getChainCoinType(chainId) == IF chainId = "cosmoshub-4" THEN 118 ELSE 60

\* (await chainsService.getChainInfo(chainId)).bech32Config.bech32PrefixAccAddr
bech32PrefixAccAddr(chainId) == IF chainId = "cosmoshub-4" THEN "cosmos" ELSE "orai"

\* keyRing.getKey(chainId, coinType): the key of the selected entry
getKey(entry, coinType) == [pubKey |-> <<"pub", entry, coinType>>,
                            address |-> <<"addr", entry, coinType>>]

\* new Bech32Address(key.address).toBech32(prefix)
toBech32(address, prefix) == <<prefix, address[2], address[3]>>

Bech32Addresses ==
  {toBech32(getKey(e, getChainCoinType(c)).address, bech32PrefixAccAddr(c)) :
     e \in Entries, c \in ChainIds}

\* ---- Amino sign documents ------------------------------------------------
MsgTypes == {"sign/MsgSignData", "cosmos-sdk/MsgSend"}

\* StdSignDoc reduced to msgs[0].type, msgs[0].value.signer and the rest
StdSignDocs == [msgType : MsgTypes, signer : Bech32Addresses, content : 0..MaxContent]

\* checkAndValidateADR36AminoSignDoc(signDoc, bech32Prefix)
checkAndValidateADR36AminoSignDoc(signDoc) == signDoc.msgType = "sign/MsgSignData"

\* serializeSignDoc(signDoc): canonical JSON bytes
serializeSignDoc(signDoc) ==
  <<IF signDoc.msgType = "sign/MsgSignData" THEN 1 ELSE 2,
    signDoc.signer[1], signDoc.signer[2], signDoc.signer[3], signDoc.content>>

\* signOptions.isADR36WithString
ADR36Options == {Undef, "true", "false"}

\* ---- Direct sign documents -----------------------------------------------
DirectSignDocs == [content : 0..MaxContent]

\* cosmos.tx.v1beta1.SignDoc.encode(signDoc).finish()
encodeSignDoc(signDoc) == <<10, signDoc.content>>

\* bytes the approval step may hand back: canonical encodings, encodings
\* with a trailing unknown field, and bytes that do not decode
DirectBytes == {encodeSignDoc(d) : d \in DirectSignDocs}
               \cup {encodeSignDoc(d) \o <<99>> : d \in DirectSignDocs}
               \cup {<<255>>}

decodable(bytes) == Len(bytes) >= 2 /\ bytes[1] = 10

\* cosmos.tx.v1beta1.SignDoc.decode(bytes): unknown fields are dropped
decodeSignDoc(bytes) == [content |-> bytes[2]]

\* makeSignBytes(signDoc)
makeSignBytes(signDoc) == <<10, signDoc.content>>

\* ---- Ethereum payloads ---------------------------------------------------
EthereumDatas == [to : {"0xabc"}, gasPrice : {Undef, "", "0x1"}, gas : {Undef, "0x2"}]

GasPriceResults == {"throw", "0x3"}
EstimateGasResults == {"throw", "0x4"}

ApproveDatas == [gasPrice : {Undef, "", "0x5"}, gasLimit : {Undef, "0x6"},
                 memo : {Undef, "hi"}, fees : {Undef, "0x7"}]

\* JavaScript truthiness of the values above
falsy(v) == v \in {Undef, ""}

NoPayload == [kind |-> "none"]
NoValue == [kind |-> Undef]
NoAddress == <<"none", 0, 0>>
NoKey == [pubKey |-> <<"pub", 0, 0>>, address |-> <<"addr", 0, 0>>]

\* ---- state -----------------------------------------------------------
VARIABLES
  status,         \* keyRing.status
  keyStores,      \* the key store collection: the entries, in order
  selectedIndex,  \* index (from 0) of the selected key store entry
  cache,          \* the decrypted secret held in memory: an entry, or NoSecret
  coinTypeForChain, \* per entry and chain: the coin type set, or Unset
  last,           \* the last key ring operation, its arguments and result
  enableCall,     \* the enable(env) call
  pc,             \* position of the request in flight
  req,            \* arguments and locals of the request in flight
  approval,       \* the waitApprove call of this request
  signerCalls,    \* calls of the keyRing signing operations by this request
  signResult,     \* how the signing operation ended
  events,         \* dispatchEvent calls made by this request
  outcome,        \* what the caller of the request observes
  served          \* number of requests that have returned to their caller

vars == <<status, keyStores, selectedIndex, cache, coinTypeForChain, last,
          enableCall, pc, req, approval, signerCalls, signResult, events,
          outcome, served>>

KeyRingVars == <<status, keyStores, selectedIndex, cache, coinTypeForChain,
                 last, enableCall>>

\* ---- key ring values ---------------------------------------------------
KeyRingPassword == "p@ss"

NoSecret == 0

Unset == 0

CoinTypes == {60, 118}

\* the entry the key ring works with
SelectedEntry == keyStores[selectedIndex + 1]

\* keyRing.computeKeyStoreCoinType(chainId, defaultCoinType)
computeKeyStoreCoinType(chainId, defaultCoinType) ==
  IF coinTypeForChain[SelectedEntry][chainId] # Unset
  THEN coinTypeForChain[SelectedEntry][chainId]
  ELSE defaultCoinType

\* what an operation leaves behind: its name, arguments, error and the number
\* of 'keystore-changed' events it dispatched; seq tells an operation from
\* the one before it
Op(op, error, n) ==
  [op |-> op, error |-> error, events |-> n, index |-> -1, selected |-> FALSE,
   password |-> Undef, chainId |-> Undef, coinType |-> Unset,
   seq |-> 1 - last.seq]

\* no operation yet
NoOp ==
  [op |-> "none", error |-> "none", events |-> 0, index |-> -1,
   selected |-> FALSE, password |-> Undef, chainId |-> Undef,
   coinType |-> Unset, seq |-> 0]

NoEnable == [pc |-> "idle", error |-> "none", result |-> Undef, approvals |-> 0]

\* the collection as persisted with every entry created in order
FullCollection == [i \in 1..MaxEntries |-> i]

NoReq == [mode |-> "none", chainId |-> Undef, signer |-> NoAddress,
          payload |-> NoPayload, option |-> Undef, isADR36SignDoc |-> FALSE,
          keyDerived |-> FALSE, bech32Address |-> NoAddress, key |-> NoKey,
          newPayload |-> NoPayload, signerUnlocked |-> FALSE,
          gasPriceResult |-> Undef, estimateGasResult |-> Undef]

NoApproval == [state |-> "none", type |-> Undef, presented |-> NoPayload,
               returned |-> NoPayload]

Pending == [status |-> "pending", error |-> Undef, value |-> NoValue]

\* request state after construction
RequestInit ==
  /\ pc = "idle"
  /\ req = NoReq
  /\ approval = NoApproval
  /\ signerCalls = <<>>
  /\ signResult = "none"
  /\ events = <<>>
  /\ outcome = Pending
  /\ served = 0

Init ==
  /\ status = "NOTLOADED"
  /\ keyStores = FullCollection
  /\ selectedIndex \in 0..(MaxEntries - 1)
  /\ cache = NoSecret
  /\ coinTypeForChain = [e \in Entries |-> [c \in ChainIds |-> Unset]]
  /\ last = NoOp
  /\ enableCall = NoEnable
  /\ RequestInit

\* ---- outcomes and shared steps -----------------------------------------
Rejected(err) == [status |-> "rejected", error |-> err, value |-> NoValue]
Resolved(v) == [status |-> "resolved", error |-> Undef, value |-> v]

\* the call ends by throwing, outside any try block
ThrowAfter(r, err) ==
  /\ req' = r
  /\ pc' = "done"
  /\ outcome' = Rejected(err)
  /\ UNCHANGED <<signerCalls, signResult, events>>

\* the same, before waitApprove was called
Throw(r, err) == ThrowAfter(r, err) /\ UNCHANGED approval

\* the call ends inside a try block: the finally clause dispatches ev
Finish(r, o, ev) ==
  /\ req' = r
  /\ pc' = "done"
  /\ outcome' = o
  /\ events' = Append(events, ev)

\* interactionService.waitApprove(env, '/sign', type, data): the call suspends
WaitApprove(r, type, data) ==
  /\ req' = r
  /\ pc' = "waitApprove"
  /\ approval' = [state |-> "pending", type |-> type, presented |-> data,
                  returned |-> NoPayload]
  /\ UNCHANGED <<signerCalls, signResult, events, outcome>>

\* a keyRing signing operation is called with message; it suspends
InvokeSigner(r, op, message) ==
  /\ req' = [r EXCEPT !.signerUnlocked = (status = "UNLOCKED")]
  /\ pc' = "signing"
  /\ signerCalls' = Append(signerCalls,
                           [op |-> op, message |-> message, by |-> SelectedEntry])
  /\ UNCHANGED <<signResult, events, outcome>>

\* mutant: the signing operation succeeds whatever the status was at the call
SignerEnds_Unchecked(ok) ==
  /\ pc = "signing"
  /\ signResult' = IF ok THEN "ok" ELSE "threw"

\* the signing operation succeeds only if the key ring was unlocked at the call
SignerEnds(ok) ==
  /\ pc = "signing"
  /\ ok => req.signerUnlocked
  /\ signResult' = IF ok THEN "ok" ELSE "threw"

\* the raw signature keyRing.sign returns
Signature == [by |-> signerCalls[1].by, over |-> signerCalls[1].message]

\* encodeSecp256k1Signature(key.pubKey, signature)
encodeSecp256k1Signature(pubKey, signature) ==
  [pub_key |-> pubKey, signature |-> signature]

\* ---- requestSignAmino ---------------------------------------------------
\* mutant: the signer comparison is dropped
SignerMismatched_NoCheck(signer, bech32Address) == FALSE

SignerMismatched(signer, bech32Address) == signer # bech32Address

\* mutant: the embedded signer is not compared before approval
UnmatchedSignerInSignDoc_NoCheck(isADR36SignDoc, signDoc, signer) == FALSE

UnmatchedSignerInSignDoc(isADR36SignDoc, signDoc, signer) ==
  isADR36SignDoc /\ signDoc.signer # signer

\* mutant: the option is not checked against the classification
InvalidOption_NoCheck(isADR36WithString, isADR36SignDoc) == FALSE

InvalidOption(isADR36WithString, isADR36SignDoc) ==
  isADR36WithString # Undef /\ ~isADR36SignDoc

\* the validation after approval; "ok" when nothing is thrown
AminoRevalidate(isADR36SignDoc, signDoc, newSignDoc, signer) ==
  IF isADR36SignDoc
  THEN IF checkAndValidateADR36AminoSignDoc(signDoc)
       THEN IF signDoc.signer # signer
            THEN "UnmatchedSignerInNewSignDoc"
            ELSE "ok"
       ELSE "ClassificationChanged"
  ELSE "ok"

\* mutant: the original document is serialized instead of the approved one
AminoSignBytes_Original(signDoc, newSignDoc) == serializeSignDoc(signDoc)

\* the bytes handed to keyRing.sign
AminoSignBytes(signDoc, newSignDoc) == serializeSignDoc(newSignDoc)

RequestSignAmino(chainId, signer, signDoc, isADR36WithString) ==
  /\ pc = "idle"
  /\ LET coinType == getChainCoinType(chainId)
         key == getKey(SelectedEntry, computeKeyStoreCoinType(chainId, coinType))
         bech32Prefix == bech32PrefixAccAddr(chainId)
         bech32Address == toBech32(key.address, bech32Prefix)
         isADR36SignDoc == checkAndValidateADR36AminoSignDoc(signDoc)
         r0 == [NoReq EXCEPT !.mode = "amino", !.chainId = chainId,
                             !.signer = signer, !.payload = signDoc,
                             !.option = isADR36WithString]
         r1 == [r0 EXCEPT !.keyDerived = TRUE, !.key = key,
                          !.bech32Address = bech32Address,
                          !.isADR36SignDoc = isADR36SignDoc]
     IN IF status # "UNLOCKED"
        THEN Throw(r0, "KeyRingNotUnlocked")
        ELSE IF SignerMismatched(signer, bech32Address)
        THEN Throw(r1, "SignerMismatch")
        ELSE IF UnmatchedSignerInSignDoc(isADR36SignDoc, signDoc, signer)
        THEN Throw(r1, "UnmatchedSignerInSignDoc")
        ELSE IF InvalidOption(isADR36WithString, isADR36SignDoc)
        THEN Throw(r1, "InvalidOption")
        ELSE WaitApprove(r1, "request-sign",
               [mode |-> "amino", signDoc |-> signDoc, signer |-> signer,
                isADR36SignDoc |-> isADR36SignDoc,
                isADR36WithString |-> isADR36WithString])
  /\ UNCHANGED <<KeyRingVars, served>>

\* waitApprove resolves with newSignDoc; the call runs on to keyRing.sign
AminoApproved(newSignDoc) ==
  /\ pc = "waitApprove"
  /\ req.mode = "amino"
  /\ approval' = [approval EXCEPT !.state = "resolved", !.returned = newSignDoc]
  /\ LET r == [req EXCEPT !.newPayload = newSignDoc]
         err == AminoRevalidate(req.isADR36SignDoc, req.payload, newSignDoc,
                                req.signer)
     IN IF err # "ok"
        THEN ThrowAfter(r, err)
        ELSE InvokeSigner(r, "sign", AminoSignBytes(req.payload, newSignDoc))
  /\ UNCHANGED <<KeyRingVars, served>>

\* keyRing.sign returns or throws; try/finally
AminoSigned(ok) ==
  /\ SignerEnds(ok)
  /\ req.mode = "amino"
  /\ Finish(req,
            IF ok
            THEN Resolved([kind |-> "AminoSignResponse",
                           signed |-> req.newPayload,
                           signature |->
                             encodeSecp256k1Signature(req.key.pubKey, Signature)])
            ELSE Rejected("SignFailure"),
            "request-sign-end")
  /\ UNCHANGED <<KeyRingVars, served, approval, signerCalls>>

\* ---- requestSignDirect --------------------------------------------------
\* the bytes handed to keyRing.sign
DirectSignBytes(signDoc, newSignDoc) == makeSignBytes(newSignDoc)

RequestSignDirect(chainId, signer, signDoc) ==
  /\ pc = "idle"
  /\ LET coinType == getChainCoinType(chainId)
         key == getKey(SelectedEntry, computeKeyStoreCoinType(chainId, coinType))
         bech32Address == toBech32(key.address, bech32PrefixAccAddr(chainId))
         r0 == [NoReq EXCEPT !.mode = "direct", !.chainId = chainId,
                             !.signer = signer, !.payload = signDoc]
         r1 == [r0 EXCEPT !.keyDerived = TRUE, !.key = key,
                          !.bech32Address = bech32Address]
     IN IF status # "UNLOCKED"
        THEN Throw(r0, "KeyRingNotUnlocked")
        ELSE IF SignerMismatched(signer, bech32Address)
        THEN Throw(r1, "SignerMismatch")
        ELSE WaitApprove(r1, "request-sign",
               [mode |-> "direct", signDocBytes |-> encodeSignDoc(signDoc),
                signer |-> signer])
  /\ UNCHANGED <<KeyRingVars, served>>

\* waitApprove resolves with newSignDocBytes; decode, then keyRing.sign
DirectApproved(newSignDocBytes) ==
  /\ pc = "waitApprove"
  /\ req.mode = "direct"
  /\ approval' = [approval EXCEPT !.state = "resolved",
                                  !.returned = [bytes |-> newSignDocBytes]]
  /\ IF ~decodable(newSignDocBytes)
     THEN ThrowAfter(req, "DecodeError")
     ELSE LET newSignDoc == decodeSignDoc(newSignDocBytes)
          IN InvokeSigner([req EXCEPT !.newPayload = newSignDoc], "sign",
                          DirectSignBytes(req.payload, newSignDoc))
  /\ UNCHANGED <<KeyRingVars, served>>

\* keyRing.sign returns or throws; try/catch(log)/finally
DirectSigned(ok) ==
  /\ SignerEnds(ok)
  /\ req.mode = "direct"
  /\ Finish(req,
            IF ok
            THEN Resolved([kind |-> "DirectSignResponse",
                           signed |-> req.newPayload,
                           signature |->
                             encodeSecp256k1Signature(req.key.pubKey, Signature)])
            ELSE Resolved(NoValue),
            "request-sign-end")
  /\ UNCHANGED <<KeyRingVars, served, approval, signerCalls>>

\* ---- estimateFeeAndWaitApprove -----------------------------------------
FallbackGasLimit == "0x5028"

\* mutant: no fallback, a failed eth_estimateGas leaves no usable limit
EstimatedGasLimit_NoFallback(estimateGasResult) == estimateGasResult

\* estimatedGasLimit after the try/catch around eth_estimateGas
EstimatedGasLimit(estimateGasResult) ==
  IF estimateGasResult = "throw" THEN FallbackGasLimit ELSE estimateGasResult

\* the data presented to waitApprove
ApprovalHints(data, estimatedGasPrice, estimatedGasLimit) ==
  [estimatedGasPrice |-> IF falsy(data.gasPrice) THEN estimatedGasPrice
                         ELSE data.gasPrice,
   estimatedGasLimit |-> IF falsy(data.gas) THEN estimatedGasLimit
                         ELSE data.gas,
   decimals |-> "18"] @@ data

\* mutant: the fields of the original payload win over the approved ones
MergeApproved_CallerWins(data, approveData) ==
  data @@ [gasPrice |-> IF approveData.gasPrice = Undef THEN "0x0"
                        ELSE approveData.gasPrice,
           gasLimit |-> approveData.gasLimit,
           memo |-> IF approveData.memo = Undef THEN "" ELSE approveData.memo,
           fees |-> approveData.fees]

\* { ...data, gasPrice, gasLimit, memo, fees } built from the approval
MergeApproved(data, approveData) ==
  [gasPrice |-> IF approveData.gasPrice = Undef THEN "0x0"
                ELSE approveData.gasPrice,
   gasLimit |-> approveData.gasLimit,
   memo |-> IF approveData.memo = Undef THEN "" ELSE approveData.memo,
   fees |-> approveData.fees] @@ data

\* request(rpc, 'eth_gasPrice', []) throws: so does estimateFeeAndWaitApprove
GasPriceThrows(gasPriceResult) == gasPriceResult = "throw"

\* the locals of the call once both RPC requests have been made
WithRpcResults(r, gasPriceResult, estimateGasResult) ==
  [r EXCEPT !.gasPriceResult = gasPriceResult,
            !.estimateGasResult = estimateGasResult]

\* estimateFeeAndWaitApprove up to its waitApprove, when eth_gasPrice answers
EstimateFeeAndWaitApprove(r, data, gasPriceResult, estimateGasResult) ==
  WaitApprove(WithRpcResults(r, gasPriceResult, estimateGasResult),
              "request-sign-ethereum",
              ApprovalHints(data, gasPriceResult,
                            EstimatedGasLimit(estimateGasResult)))

\* ---- requestSignEthereum ------------------------------------------------
RequestSignEthereum(chainId, data, gasPriceResult, estimateGasResult) ==
  /\ pc = "idle"
  /\ LET r == [NoReq EXCEPT !.mode = "ethereum", !.chainId = chainId,
                            !.payload = data]
     IN IF GasPriceThrows(gasPriceResult)
        THEN Throw(WithRpcResults(r, gasPriceResult, estimateGasResult),
                   "RpcError")
        ELSE EstimateFeeAndWaitApprove(r, data, gasPriceResult,
                                       estimateGasResult)
  /\ UNCHANGED <<KeyRingVars, served>>

\* waitApprove resolves with approveData; keyRing.signAndBroadcastEthereum
EthereumApproved(approveData) ==
  /\ pc = "waitApprove"
  /\ req.mode = "ethereum"
  /\ approval' = [approval EXCEPT !.state = "resolved", !.returned = approveData]
  /\ LET newData == MergeApproved(req.payload, approveData)
     IN InvokeSigner([req EXCEPT !.newPayload = newData],
                     "signAndBroadcastEthereum", newData)
  /\ UNCHANGED <<KeyRingVars, served>>

\* try/finally
EthereumSigned(ok) ==
  /\ SignerEnds(ok)
  /\ req.mode = "ethereum"
  /\ Finish(req,
            IF ok THEN Resolved([kind |-> "rawTxHex", of |-> req.newPayload])
            ELSE Rejected("SignFailure"),
            "request-sign-ethereum-end")
  /\ UNCHANGED <<KeyRingVars, served, approval, signerCalls>>

\* ---- requestSignEthereumTypedData ---------------------------------------
TypedDatas == [typedMessage : 0..MaxContent, version : {"V4"}]

RequestSignEthereumTypedData(chainId, data) ==
  /\ pc = "idle"
  /\ InvokeSigner([NoReq EXCEPT !.mode = "typedData", !.chainId = chainId,
                                !.payload = data],
                  "signEthereumTypedData", data)
  /\ UNCHANGED <<KeyRingVars, served, approval>>

\* try/catch(log)/finally
TypedDataSigned(ok) ==
  /\ SignerEnds(ok)
  /\ req.mode = "typedData"
  /\ Finish(req,
            IF ok THEN Resolved([kind |-> "ECDSASignature", of |-> req.payload])
            ELSE Resolved(NoValue),
            "request-sign-end")
  /\ UNCHANGED <<KeyRingVars, served, approval, signerCalls>>

\* ---- requestSignProxyDecryptionData / requestSignProxyReEncryptionData --
ProxyModes == {"proxyDecryption", "proxyReEncryption"}

\* an exception inside the try block: logged, then the finally clause
ProxyCaught(r) ==
  /\ Finish(r, Resolved(NoValue), "request-sign-ethereum-end")
  /\ UNCHANGED <<signerCalls, signResult>>

RequestSignProxyDecryptionData(chainId, data, gasPriceResult, estimateGasResult) ==
  /\ pc = "idle"
  /\ LET r == [NoReq EXCEPT !.mode = "proxyDecryption", !.chainId = chainId,
                            !.payload = data]
     IN IF GasPriceThrows(gasPriceResult)
        THEN /\ ProxyCaught(WithRpcResults(r, gasPriceResult, estimateGasResult))
             /\ UNCHANGED approval
        ELSE EstimateFeeAndWaitApprove(r, data, gasPriceResult,
                                       estimateGasResult)
  /\ UNCHANGED <<KeyRingVars, served>>

RequestSignProxyReEncryptionData(chainId, data, gasPriceResult, estimateGasResult) ==
  /\ pc = "idle"
  /\ LET r == [NoReq EXCEPT !.mode = "proxyReEncryption", !.chainId = chainId,
                            !.payload = data]
     IN IF GasPriceThrows(gasPriceResult)
        THEN /\ ProxyCaught(WithRpcResults(r, gasPriceResult, estimateGasResult))
             /\ UNCHANGED approval
        ELSE EstimateFeeAndWaitApprove(r, data, gasPriceResult,
                                       estimateGasResult)
  /\ UNCHANGED <<KeyRingVars, served>>

\* waitApprove resolves; keyRing.signProxyDecryptionData / ReEncryptionData
ProxyApproved(approveData) ==
  /\ pc = "waitApprove"
  /\ req.mode \in ProxyModes
  /\ approval' = [approval EXCEPT !.state = "resolved", !.returned = approveData]
  /\ LET newData == MergeApproved(req.payload, approveData)
     IN InvokeSigner([req EXCEPT !.newPayload = newData],
                     IF req.mode = "proxyDecryption"
                     THEN "signProxyDecryptionData"
                     ELSE "signProxyReEncryptionData",
                     newData)
  /\ UNCHANGED <<KeyRingVars, served>>

\* try/catch(log)/finally
ProxySigned(ok) ==
  /\ SignerEnds(ok)
  /\ req.mode \in ProxyModes
  /\ Finish(req,
            IF ok THEN Resolved([kind |-> "proxyResult", of |-> req.newPayload])
            ELSE Resolved(NoValue),
            "request-sign-ethereum-end")
  /\ UNCHANGED <<KeyRingVars, served, approval, signerCalls>>

\* ---- waitApprove rejects (user cancel, origin denied) -------------------
ApproveRejected ==
  /\ pc = "waitApprove"
  /\ approval' = [approval EXCEPT !.state = "rejected"]
  /\ IF req.mode \in ProxyModes
     THEN ProxyCaught(req)
     ELSE ThrowAfter(req, "ApprovalRejected")
  /\ UNCHANGED <<KeyRingVars, served>>

\* the caller has its answer; the next request may start
Return ==
  /\ pc = "done"
  /\ served < MaxRequests
  /\ served' = served + 1
  /\ pc' = "idle"
  /\ req' = NoReq
  /\ approval' = NoApproval
  /\ signerCalls' = <<>>
  /\ signResult' = "none"
  /\ events' = <<>>
  /\ outcome' = Pending
  /\ UNCHANGED KeyRingVars

\* ---- key ring status ----------------------------------------------------
Passwords == {"p@ss", "wrong"}

RequestVars == <<pc, req, approval, signerCalls, signResult, events, outcome,
                 served>>

\* keyRing.restore(): the status computed from the persisted collection
RestoredStatus == IF keyStores = <<>> THEN "EMPTY" ELSE "LOCKED"

\* restore()
Restore ==
  /\ status = "NOTLOADED"
  /\ status' = RestoredStatus
  /\ last' = Op("restore", "none", 0)
  /\ UNCHANGED <<keyStores, selectedIndex, cache, coinTypeForChain, enableCall,
                 RequestVars>>

\* lock(): the secret cache is wiped
Lock ==
  /\ status = "UNLOCKED"
  /\ status' = "LOCKED"
  /\ cache' = NoSecret
  /\ last' = Op("lock", "none", 0)
  /\ UNCHANGED <<keyStores, selectedIndex, coinTypeForChain, enableCall,
                 RequestVars>>

\* mutant: any password unlocks
PasswordMatches_Any(password) == TRUE

\* keyRing.unlock: the password decrypts the selected entry
PasswordMatches(password) == password = KeyRingPassword

\* unlock(password)
Unlock(password) ==
  /\ status = "LOCKED"
  /\ status' = IF PasswordMatches(password) THEN "UNLOCKED" ELSE "LOCKED"
  /\ cache' = IF PasswordMatches(password) THEN SelectedEntry ELSE cache
  /\ last' = [Op("unlock",
                 IF PasswordMatches(password) THEN "none" ELSE "WrongPassword",
                 0) EXCEPT !.password = password]
  /\ UNCHANGED <<keyStores, selectedIndex, coinTypeForChain, enableCall,
                 RequestVars>>

\* ---- enable ---------------------------------------------------------------
\* enable(env) up to its return, its exception or its waitApprove('unlock')
Enable ==
  /\ enableCall.pc \in {"idle", "done"}
  /\ last' = Op("enable", "none", 0)
  /\ IF status = "EMPTY"
     THEN /\ enableCall' = [pc |-> "done", error |-> "NoKeyRing",
                            result |-> Undef, approvals |-> 0]
          /\ UNCHANGED status
     ELSE LET restored == IF status = "NOTLOADED" THEN RestoredStatus
                          ELSE status
          IN /\ status' = restored
             /\ enableCall' =
                  IF restored = "LOCKED"
                  THEN [pc |-> "waitUnlock", error |-> "none",
                        result |-> Undef, approvals |-> 1]
                  ELSE [pc |-> "done", error |-> "none",
                        result |-> restored, approvals |-> 0]
  /\ UNCHANGED <<keyStores, selectedIndex, cache, coinTypeForChain, RequestVars>>

\* waitApprove(env, '/unlock', 'unlock', {}) resolves: the status is returned
EnableApproved ==
  /\ enableCall.pc = "waitUnlock"
  /\ enableCall' = [enableCall EXCEPT !.pc = "done", !.result = status]
  /\ last' = Op("enable", "none", 0)
  /\ UNCHANGED <<status, keyStores, selectedIndex, cache, coinTypeForChain,
                 RequestVars>>

\* waitApprove(env, '/unlock', 'unlock', {}) rejects
EnableRejected ==
  /\ enableCall.pc = "waitUnlock"
  /\ enableCall' = [enableCall EXCEPT !.pc = "done",
                                      !.error = "ApprovalRejected"]
  /\ last' = Op("enable", "ApprovalRejected", 0)
  /\ UNCHANGED <<status, keyStores, selectedIndex, cache, coinTypeForChain,
                 RequestVars>>

\* ---- key store collection ----------------------------------------------
\* the entries held in memory: none before restore()
ValidIndex(index) == status # "NOTLOADED" /\ index \in 0..(Len(keyStores) - 1)

\* the entry a create or add operation makes
NewEntry == CHOOSE e \in Entries :
              /\ \A i \in 1..Len(keyStores) : keyStores[i] # e
              /\ \A f \in Entries :
                   (\A i \in 1..Len(keyStores) : keyStores[i] # f) => e <= f

\* keyRing.create*Key: the first entry is made, selected and unlocked
KeyRingCreate(op, materialOk) ==
  IF status = "EMPTY" /\ materialOk /\ Len(keyStores) < MaxEntries
  THEN /\ keyStores' = Append(keyStores, NewEntry)
       /\ selectedIndex' = Len(keyStores)
       /\ status' = "UNLOCKED"
       /\ cache' = NewEntry
       /\ last' = Op(op, "none", 0)
  ELSE /\ last' = Op(op, IF status # "EMPTY" THEN "NotEmpty"
                        ELSE "InvalidSecretMaterial", 0)
       /\ UNCHANGED <<keyStores, selectedIndex, status, cache>>

\* keyRing.add*Key: an entry is appended; selection and status stay
KeyRingAdd(op, materialOk) ==
  IF status = "UNLOCKED" /\ materialOk /\ Len(keyStores) < MaxEntries
  THEN /\ keyStores' = Append(keyStores, NewEntry)
       /\ last' = Op(op, "none", 0)
       /\ UNCHANGED <<selectedIndex, status, cache>>
  ELSE /\ last' = Op(op, IF status # "UNLOCKED" THEN "Locked"
                        ELSE "InvalidSecretMaterial", 0)
       /\ UNCHANGED <<keyStores, selectedIndex, status, cache>>

CreateMnemonicKey(materialOk) ==
  /\ KeyRingCreate("createMnemonicKey", materialOk)
  /\ UNCHANGED <<coinTypeForChain, enableCall, RequestVars>>

CreatePrivateKey(materialOk) ==
  /\ KeyRingCreate("createPrivateKey", materialOk)
  /\ UNCHANGED <<coinTypeForChain, enableCall, RequestVars>>

CreateLedgerKey(deviceOk) ==
  /\ KeyRingCreate("createLedgerKey", deviceOk)
  /\ UNCHANGED <<coinTypeForChain, enableCall, RequestVars>>

AddMnemonicKey(materialOk) ==
  /\ KeyRingAdd("addMnemonicKey", materialOk)
  /\ UNCHANGED <<coinTypeForChain, enableCall, RequestVars>>

AddPrivateKey(materialOk) ==
  /\ KeyRingAdd("addPrivateKey", materialOk)
  /\ UNCHANGED <<coinTypeForChain, enableCall, RequestVars>>

AddLedgerKey(deviceOk) ==
  /\ KeyRingAdd("addLedgerKey", deviceOk)
  /\ UNCHANGED <<coinTypeForChain, enableCall, RequestVars>>

\* the collection without the entry at index
WithoutIndex(index) ==
  [i \in 1..(Len(keyStores) - 1) |->
     IF i <= index THEN keyStores[i] ELSE keyStores[i + 1]]

\* mutant: the selection is left where it was
SelectedAfterDelete_Stale(index) == selectedIndex

\* keyRing.deleteKeyRing: index 0 is selected again when the selected entry
\* goes; otherwise the selection follows its entry
SelectedAfterDelete(index) ==
  IF index = selectedIndex THEN 0
  ELSE IF index < selectedIndex THEN selectedIndex - 1
  ELSE selectedIndex

\* mutant: the event is dispatched whatever the key ring reported
DeleteDispatches_Always(keyStoreChanged) == TRUE

\* the finally clause of deleteKeyRing
DeleteDispatches(keyStoreChanged) == keyStoreChanged

\* deleteKeyRing(index, password)
DeleteKeyRing(index, password) ==
  /\ LET error == IF ~ValidIndex(index) THEN "IndexOutOfRange"
                  ELSE IF ~PasswordMatches(password) THEN "WrongPassword"
                  ELSE "none"
         keyStoreChanged == error = "none"
         l == [Op("deleteKeyRing", error,
                  IF DeleteDispatches(keyStoreChanged) THEN 1 ELSE 0)
                 EXCEPT !.index = index, !.password = password,
                        !.selected = (index = selectedIndex)]
     IN /\ last' = l
        /\ IF error = "none"
           THEN /\ keyStores' = WithoutIndex(index)
                /\ selectedIndex' = SelectedAfterDelete(index)
                /\ status' = IF Len(keyStores) = 1 THEN "EMPTY" ELSE status
                /\ cache' = IF Len(keyStores) > 1 /\ status = "UNLOCKED"
                            THEN WithoutIndex(index)[SelectedAfterDelete(index) + 1]
                            ELSE NoSecret
                /\ coinTypeForChain' =
                     [coinTypeForChain EXCEPT
                        ![keyStores[index + 1]] = [c \in ChainIds |-> Unset]]
           ELSE UNCHANGED <<keyStores, selectedIndex, status, cache,
                            coinTypeForChain>>
  /\ UNCHANGED <<enableCall, RequestVars>>

\* changeKeyStoreFromMultiKeyStore(index): try / finally dispatchEvent
ChangeKeyStoreFromMultiKeyStore(index) ==
  /\ last' = [Op("changeKeyStoreFromMultiKeyStore",
                 IF ValidIndex(index) THEN "none" ELSE "IndexOutOfRange", 1)
                EXCEPT !.index = index, !.selected = (index = selectedIndex)]
  /\ IF ValidIndex(index)
     THEN /\ selectedIndex' = index
          /\ cache' = IF status = "UNLOCKED" THEN keyStores[index + 1]
                      ELSE NoSecret
     ELSE UNCHANGED <<selectedIndex, cache>>
  /\ UNCHANGED <<status, keyStores, coinTypeForChain, enableCall, RequestVars>>

\* mutant: the event is dispatched whatever the previous coin type was
CoinTypeChanged_Always(prevCoinType, coinType) == TRUE

\* the condition of the dispatch in setKeyStoreCoinType
CoinTypeChanged(prevCoinType, coinType) == prevCoinType # coinType

\* what keyRing.setKeyStoreCoinType does when the chain has a coin type already
AlreadySetBehaviours == {"overwrite", "throw"}

\* setKeyStoreCoinType(chainId, coinType)
SetKeyStoreCoinType(chainId, coinType, alreadySet) ==
  /\ LET usable == status = "UNLOCKED" /\ keyStores # <<>>
         isSet == usable /\ coinTypeForChain[SelectedEntry][chainId] # Unset
         error == IF ~usable THEN "Locked"
                  ELSE IF isSet /\ alreadySet = "throw" THEN "CoinTypeAlreadySet"
                  ELSE "none"
         written == error = "none"
         dispatched ==
           /\ error = "none"
           /\ CoinTypeChanged(
                computeKeyStoreCoinType(chainId, getChainCoinType(chainId)),
                coinType)
     IN /\ last' = [Op("setKeyStoreCoinType", error,
                       IF dispatched THEN 1 ELSE 0)
                      EXCEPT !.chainId = chainId, !.coinType = coinType]
        /\ coinTypeForChain' =
             IF written
             THEN [coinTypeForChain EXCEPT ![SelectedEntry][chainId] = coinType]
             ELSE coinTypeForChain
  /\ UNCHANGED <<status, keyStores, selectedIndex, cache, enableCall,
                 RequestVars>>

\* ---- specification ------------------------------------------------------
Next ==
  \/ \E c \in ChainIds, s \in Bech32Addresses, d \in StdSignDocs, o \in ADR36Options :
       RequestSignAmino(c, s, d, o)
  \/ \E d \in StdSignDocs : AminoApproved(d)
  \/ \E ok \in BOOLEAN : AminoSigned(ok)
  \/ \E c \in ChainIds, s \in Bech32Addresses, d \in DirectSignDocs :
       RequestSignDirect(c, s, d)
  \/ \E b \in DirectBytes : DirectApproved(b)
  \/ \E ok \in BOOLEAN : DirectSigned(ok)
  \/ \E c \in ChainIds, d \in EthereumDatas, gp \in GasPriceResults,
        gl \in EstimateGasResults : RequestSignEthereum(c, d, gp, gl)
  \/ \E a \in ApproveDatas : EthereumApproved(a)
  \/ \E ok \in BOOLEAN : EthereumSigned(ok)
  \/ \E c \in ChainIds, d \in TypedDatas : RequestSignEthereumTypedData(c, d)
  \/ \E ok \in BOOLEAN : TypedDataSigned(ok)
  \/ \E c \in ChainIds, d \in EthereumDatas, gp \in GasPriceResults,
        gl \in EstimateGasResults : RequestSignProxyDecryptionData(c, d, gp, gl)
  \/ \E c \in ChainIds, d \in EthereumDatas, gp \in GasPriceResults,
        gl \in EstimateGasResults : RequestSignProxyReEncryptionData(c, d, gp, gl)
  \/ \E a \in ApproveDatas : ProxyApproved(a)
  \/ \E ok \in BOOLEAN : ProxySigned(ok)
  \/ ApproveRejected
  \/ Return
  \/ Restore
  \/ Lock
  \/ \E p \in Passwords : Unlock(p)

Spec == Init /\ [][Next]_vars

\* ---- sign requests while the user switches between key store entries -----
SwitchNext ==
  \/ \E c \in ChainIds, s \in Bech32Addresses, d \in StdSignDocs, o \in ADR36Options :
       RequestSignAmino(c, s, d, o)
  \/ \E d \in StdSignDocs : AminoApproved(d)
  \/ \E ok \in BOOLEAN : AminoSigned(ok)
  \/ \E c \in ChainIds, s \in Bech32Addresses, d \in DirectSignDocs :
       RequestSignDirect(c, s, d)
  \/ \E b \in DirectBytes : DirectApproved(b)
  \/ \E ok \in BOOLEAN : DirectSigned(ok)
  \/ ApproveRejected
  \/ Return
  \/ Restore
  \/ Unlock(KeyRingPassword)
  \/ \E i \in 0..MaxEntries : ChangeKeyStoreFromMultiKeyStore(i)

SwitchSpec == Init /\ [][SwitchNext]_vars

\* ---- coin types of the selected entry ------------------------------------
CoinTypeNext ==
  \/ Restore
  \/ Lock
  \/ Unlock(KeyRingPassword)
  \/ \E i \in 0..MaxEntries : ChangeKeyStoreFromMultiKeyStore(i)
  \/ \E c \in ChainIds, t \in CoinTypes, a \in AlreadySetBehaviours :
       SetKeyStoreCoinType(c, t, a)

CoinTypeSpec == Init /\ [][CoinTypeNext]_vars

\* ---- the key ring on its own: no sign request in flight -----------------
PersistedCollections == {[i \in 1..n |-> i] : n \in 0..MaxEntries}

KeyRingInit ==
  /\ status = "NOTLOADED"
  /\ keyStores \in PersistedCollections
  /\ selectedIndex \in {i \in 0..(MaxEntries - 1) : i = 0 \/ i < Len(keyStores)}
  /\ cache = NoSecret
  /\ coinTypeForChain = [e \in Entries |-> [c \in ChainIds |-> Unset]]
  /\ last = NoOp
  /\ enableCall = NoEnable
  /\ RequestInit

KeyRingNext ==
  \/ Restore
  \/ Lock
  \/ \E p \in Passwords : Unlock(p)
  \/ Enable
  \/ EnableApproved
  \/ EnableRejected
  \/ \E ok \in BOOLEAN : CreateMnemonicKey(ok)
  \/ \E ok \in BOOLEAN : CreatePrivateKey(ok)
  \/ \E ok \in BOOLEAN : CreateLedgerKey(ok)
  \/ \E ok \in BOOLEAN : AddMnemonicKey(ok)
  \/ \E ok \in BOOLEAN : AddPrivateKey(ok)
  \/ \E ok \in BOOLEAN : AddLedgerKey(ok)
  \/ \E i \in 0..MaxEntries, p \in Passwords : DeleteKeyRing(i, p)
  \/ \E i \in 0..MaxEntries : ChangeKeyStoreFromMultiKeyStore(i)

KeyRingSpec == KeyRingInit /\ [][KeyRingNext]_vars

\* ---- properties ---------------------------------------------------------
CompletionEvents == {"request-sign-end", "request-sign-ethereum-end"}

ValidationErrors == {"SignerMismatch", "UnmatchedSignerInSignDoc", "InvalidOption",
                     "UnmatchedSignerInNewSignDoc", "ClassificationChanged"}

\* C1: in every signing mode the signer is invoked only after waitApprove has
\* resolved for the same request.
C1_SignerOnlyAfterApproval ==
  signerCalls # <<>> => approval.state = "resolved"

\* the exit paths C2 lists: success, signing failure, approval rejection,
\* validation failure
OnListedExitPath ==
  \/ outcome.status = "resolved" /\ outcome.value # NoValue
  \/ signResult = "threw"
  \/ approval.state = "rejected"
  \/ outcome.status = "rejected" /\ outcome.error \in ValidationErrors

\* C2: when a requestSign* call finishes on one of the listed exit paths,
\* exactly one completion notification has been dispatched.
C2_ExactlyOneCompletionEvent ==
  (pc = "done" /\ OnListedExitPath) =>
    (Len(events) = 1 /\ events[1] \in CompletionEvents)

\* C3: an Amino request classified ADR-36 before approval whose approved
\* document is not ADR-36 fails with ClassificationChanged and the signer is
\* never invoked.
C3_ClassificationChangeRejected ==
  (/\ req.mode = "amino"
   /\ req.isADR36SignDoc
   /\ approval.state = "resolved"
   /\ ~checkAndValidateADR36AminoSignDoc(approval.returned)) =>
    (outcome = Rejected("ClassificationChanged") /\ signerCalls = <<>>)

\* C4: an Amino request classified ADR-36 whose approved document is ADR-36
\* but names another signer fails with the unmatched-signer error and nothing
\* is signed.
C4_ApprovedSignerRevalidated ==
  (/\ req.mode = "amino"
   /\ req.isADR36SignDoc
   /\ approval.state = "resolved"
   /\ checkAndValidateADR36AminoSignDoc(approval.returned)
   /\ approval.returned.signer # req.signer) =>
    (/\ outcome.status = "rejected"
     /\ outcome.error \in {"UnmatchedSignerInSignDoc", "UnmatchedSignerInNewSignDoc"}
     /\ signerCalls = <<>>)

\* C5: an Amino or Direct request whose asserted signer differs from the
\* address derived from the selected entry fails with SignerMismatch, and
\* waitApprove is never invoked for it.
C5_SignerMismatchBeforeApproval ==
  (/\ req.mode \in {"amino", "direct"}
   /\ req.keyDerived
   /\ req.signer # req.bech32Address) =>
    (/\ pc = "done"
     /\ outcome = Rejected("SignerMismatch")
     /\ approval.state = "none"
     /\ signerCalls = <<>>)

C5_Witness ==
  /\ req.mode = "direct"
  /\ req.keyDerived
  /\ req.signer # req.bech32Address
  /\ pc = "done"

\* an ADR-36 Amino document whose embedded signer is not the asserted signer,
\* in a call that derived its key
EmbeddedSignerDiffers ==
  /\ req.mode = "amino"
  /\ req.keyDerived
  /\ checkAndValidateADR36AminoSignDoc(req.payload)
  /\ req.payload.signer # req.signer

\* C6 as stated: such a request fails with UnmatchedSignerInSignDoc before
\* waitApprove is invoked.
C6_Original ==
  EmbeddedSignerDiffers =>
    (outcome = Rejected("UnmatchedSignerInSignDoc") /\ approval.state = "none")

\* C6 amended: such a request never reaches waitApprove; it fails with
\* UnmatchedSignerInSignDoc when the asserted signer is the derived address,
\* and with SignerMismatch otherwise.
C6_UnmatchedSignerBeforeApproval ==
  EmbeddedSignerDiffers =>
    (/\ pc = "done"
     /\ approval.state = "none"
     /\ signerCalls = <<>>
     /\ outcome = Rejected(IF req.signer = req.bech32Address
                           THEN "UnmatchedSignerInSignDoc"
                           ELSE "SignerMismatch"))

C6_Witness ==
  /\ EmbeddedSignerDiffers
  /\ req.signer = req.bech32Address
  /\ outcome = Rejected("UnmatchedSignerInSignDoc")

\* an Amino call that derived its key, with the isADR36WithString option
\* defined and a document that is not ADR-36
OptionOnOrdinaryDoc ==
  /\ req.mode = "amino"
  /\ req.keyDerived
  /\ req.option # Undef
  /\ ~checkAndValidateADR36AminoSignDoc(req.payload)

\* for an ADR-36 document the option never causes a failure
OptionHarmlessOnADR36 ==
  (/\ req.mode = "amino"
   /\ req.keyDerived
   /\ checkAndValidateADR36AminoSignDoc(req.payload)) =>
    outcome.error # "InvalidOption"

\* C7 as stated: such a request fails with InvalidOption before waitApprove
\* and nothing is signed; on an ADR-36 document the option causes no failure.
C7_Original ==
  /\ OptionOnOrdinaryDoc =>
       (/\ outcome = Rejected("InvalidOption")
        /\ approval.state = "none"
        /\ signerCalls = <<>>)
  /\ OptionHarmlessOnADR36

\* C7 amended: such a request never reaches waitApprove and nothing is signed;
\* it fails with InvalidOption when the asserted signer is the derived
\* address, and with SignerMismatch otherwise; on an ADR-36 document the
\* option causes no failure.
C7_InvalidOptionBeforeApproval ==
  /\ OptionOnOrdinaryDoc =>
       (/\ pc = "done"
        /\ approval.state = "none"
        /\ signerCalls = <<>>
        /\ outcome = Rejected(IF req.signer = req.bech32Address
                              THEN "InvalidOption"
                              ELSE "SignerMismatch"))
  /\ OptionHarmlessOnADR36

C7_Witness ==
  /\ OptionOnOrdinaryDoc
  /\ req.signer = req.bech32Address
  /\ outcome = Rejected("InvalidOption")

\* C8: in Amino and Direct mode the bytes handed to the signer serialize the
\* document the approval step returned, the response's signed document is that
\* document, and an edited document is never replaced by the original one.
C8_SignedIsApproved ==
  /\ (req.mode = "amino" /\ signerCalls # <<>>) =>
       (/\ approval.state = "resolved"
        /\ signerCalls[1].message = serializeSignDoc(approval.returned)
        /\ approval.returned # req.payload =>
             signerCalls[1].message # serializeSignDoc(req.payload))
  /\ (req.mode = "amino" /\ outcome.status = "resolved") =>
       outcome.value.signed = approval.returned
  /\ (req.mode = "direct" /\ signerCalls # <<>>) =>
       (/\ approval.state = "resolved"
        /\ signerCalls[1].message =
             makeSignBytes(decodeSignDoc(approval.returned.bytes))
        /\ decodeSignDoc(approval.returned.bytes) # req.payload =>
             signerCalls[1].message # makeSignBytes(req.payload))
  /\ (req.mode = "direct" /\ outcome.value # NoValue) =>
       outcome.value.signed = decodeSignDoc(approval.returned.bytes)

C8_Witness ==
  /\ req.mode = "amino"
  /\ outcome.status = "resolved"
  /\ approval.returned # req.payload
  /\ signerCalls # <<>>

\* C9: when the approval step rejects, the request is reported to the caller
\* as a failure and the signer is never invoked.
C9_RejectionIsFailure ==
  approval.state = "rejected" =>
    (pc = "done" /\ outcome.status = "rejected" /\ signerCalls = <<>>)

\* C10: in the Amino, Direct, Ethereum and proxy modes a failure of the
\* signing step is a failure of the request, and no request completes
\* successfully without a result.
C10_SignFailurePropagates ==
  (req.mode \in {"amino", "direct", "ethereum"} \cup ProxyModes /\ pc = "done") =>
    (/\ signResult = "threw" => outcome.status = "rejected"
     /\ (approval.state = "resolved" /\ outcome.status = "resolved") =>
          outcome.value # NoValue)

C12_EnableNeverReturnsEmpty ==
  (enableCall.pc = "done" /\ enableCall.error = "none") =>
    enableCall.result \notin {"EMPTY", "NOTLOADED"}

\* C13: from LOCKED, unlock with the correct password ends in UNLOCKED; with
\* an incorrect password the status stays LOCKED, no secret is cached and
\* WrongPassword is reported. lock() ends in LOCKED with the secret cache empty.
C13_UnlockAndLock ==
  [][/\ (status = "LOCKED" /\ last'.op = "unlock") =>
          /\ last'.password = KeyRingPassword =>
                (status' = "UNLOCKED" /\ last'.error = "none")
          /\ last'.password # KeyRingPassword =>
                /\ status' = "LOCKED"
                /\ cache' = NoSecret
                /\ last'.error = "WrongPassword"
     /\ (status = "UNLOCKED" /\ last'.op = "lock") =>
          (status' = "LOCKED" /\ cache' = NoSecret)]_vars

\* an unlock with an incorrect password has been refused
C13_Witness ==
  /\ last.op = "unlock"
  /\ last.password # KeyRingPassword
  /\ last.error = "WrongPassword"
  /\ status = "LOCKED"
  /\ cache = NoSecret

\* C14: whenever the key store collection is non-empty, selectedIndex is a
\* valid index into it, and a successful deleteKeyRing of the selected entry
\* that leaves entries behind leaves selectedIndex = 0.
C14_SelectedIndexValid ==
  /\ keyStores # <<>> => selectedIndex \in 0..(Len(keyStores) - 1)
  /\ (/\ last.op = "deleteKeyRing"
      /\ last.error = "none"
      /\ last.selected
      /\ keyStores # <<>>) => selectedIndex = 0

\* the selected entry, not the first one, was deleted and entries remain
C14_Witness ==
  /\ last.op = "deleteKeyRing"
  /\ last.error = "none"
  /\ last.selected
  /\ last.index > 0
  /\ keyStores # <<>>
  /\ selectedIndex = 0

\* the operations that change which entries exist or which one is selected
ChangingOperations ==
  {"createMnemonicKey", "createPrivateKey", "createLedgerKey",
   "addMnemonicKey", "addPrivateKey", "addLedgerKey", "deleteKeyRing",
   "changeKeyStoreFromMultiKeyStore"}

\* C15 (as stated): every create*, add*, deleteKeyRing or
\* changeKeyStoreFromMultiKeyStore operation that succeeds has dispatched a
\* 'keystore-changed' notification when it returns.
C15_ChangeIsNotified ==
  (last.op \in ChangingOperations /\ last.error = "none") => last.events >= 1

\* C16: a setKeyStoreCoinType call that repeats the previous successful call
\* dispatches no 'keystore-changed' notification; a call that changes the
\* effective coin type of the chain dispatches exactly one; a call that fails
\* inside the key ring dispatches none and leaves the stored coin types alone.
C16_CoinTypeNotification ==
  [][last'.op = "setKeyStoreCoinType" =>
       LET chainId == last'.chainId
           coinType == last'.coinType
           prevCoinType ==
             computeKeyStoreCoinType(chainId, getChainCoinType(chainId))
       IN /\ (/\ last.op = "setKeyStoreCoinType"
               /\ last.error = "none"
               /\ last.chainId = chainId
               /\ last.coinType = coinType) => last'.events = 0
          /\ (last'.error = "none" /\ prevCoinType = coinType) =>
               last'.events = 0
          /\ (last'.error = "none" /\ prevCoinType # coinType) =>
               /\ last'.events = 1
               /\ coinTypeForChain'[keyStores'[selectedIndex' + 1]][chainId]
                    = coinType
          /\ last'.error # "none" =>
               (last'.events = 0 /\ coinTypeForChain' = coinTypeForChain)]_vars

\* a successful call found the coin type it asks for, other than the chain's
\* default, set already: it dispatched nothing
C16_Witness ==
  /\ last.op = "setKeyStoreCoinType"
  /\ last.error = "none"
  /\ last.events = 0
  /\ last.coinType # getChainCoinType(last.chainId)
  /\ coinTypeForChain[SelectedEntry][last.chainId] = last.coinType

\* the modes that go through estimateFeeAndWaitApprove
FeeModes == {"ethereum"} \cup ProxyModes

\* C17: when eth_estimateGas fails (and eth_gasPrice answered) the request
\* still reaches the approval step, the estimate that enters the hints is the
\* fallback limit '0x5028', and the request does not fail with that error.
C17_EstimateGasFallback ==
  (/\ req.mode \in FeeModes
   /\ req.gasPriceResult # "throw"
   /\ req.estimateGasResult = "throw") =>
    /\ approval.state # "none"
    /\ approval.presented.estimatedGasLimit =
         (IF falsy(req.payload.gas) THEN FallbackGasLimit ELSE req.payload.gas)
    /\ outcome.status = "rejected" =>
         outcome.error \in {"ApprovalRejected", "SignFailure"}

\* eth_estimateGas failed, the approval step showed the fallback limit and
\* the request went on to its signature
C17_Witness ==
  /\ req.mode \in FeeModes
  /\ req.gasPriceResult # "throw"
  /\ req.estimateGasResult = "throw"
  /\ approval.state = "resolved"
  /\ approval.presented.estimatedGasLimit = FallbackGasLimit
  /\ signResult = "ok"
  /\ outcome.status = "resolved"

\* C18: deleteKeyRing dispatches 'keystore-changed' if and only if the key
\* store set changed; when it fails with WrongPassword or IndexOutOfRange the
\* collection, selectedIndex and status are unchanged and nothing is dispatched.
C18_DeleteNotifiesIffChanged ==
  [][last'.op = "deleteKeyRing" =>
       /\ last'.events \in {0, 1}
       /\ last'.events = 1 <=> keyStores' # keyStores
       /\ last'.error \in {"none", "WrongPassword", "IndexOutOfRange"}
       /\ last'.error # "none" =>
            /\ keyStores' = keyStores
            /\ selectedIndex' = selectedIndex
            /\ status' = status
            /\ last'.events = 0]_vars

\* a deleteKeyRing of an existing entry was refused for its password
C18_Witness ==
  /\ last.op = "deleteKeyRing"
  /\ last.error = "WrongPassword"
  /\ last.index \in 0..(Len(keyStores) - 1)
  /\ last.events = 0

\* C19 (as stated): the signature a successful requestSignAmino or
\* requestSignDirect call returns is made by the key of the entry whose
\* address was validated against the signer and whose public key is returned.
C19_SignedByValidatedKey ==
  (/\ req.mode \in {"amino", "direct"}
   /\ outcome.status = "resolved"
   /\ outcome.value # NoValue) =>
    outcome.value.signature.signature.by = outcome.value.signature.pub_key[2]

\* C20 (as stated): the hints presented to the approval step carry the
\* caller-provided gasPrice when the draft payload has one and otherwise the
\* eth_gasPrice result, and the caller-provided gas when present and
\* otherwise the eth_estimateGas result or the fallback limit.
C20_CallerValueWins ==
  (req.mode \in FeeModes /\ approval.state # "none") =>
    /\ approval.presented.estimatedGasPrice =
         (IF req.payload.gasPrice # Undef THEN req.payload.gasPrice
          ELSE req.gasPriceResult)
    /\ approval.presented.estimatedGasLimit =
         (IF req.payload.gas # Undef THEN req.payload.gas
          ELSE EstimatedGasLimit(req.estimateGasResult))

\* the fields the approval response supplies
ApprovedFields == {"gasPrice", "gasLimit", "memo", "fees"}

\* C21: the payload handed to the signer after approval is the original
\* payload with gasPrice, gasLimit, memo and fees taken from the approval
\* response, an unset gasPrice being "0x0" and an unset memo ""; the caller's
\* own gasPrice does not survive, every other field of the payload does.
C21_MergedPayloadDispatched ==
  (req.mode \in FeeModes /\ signerCalls # <<>>) =>
    LET sent == signerCalls[1].message
        approveData == approval.returned
        data == req.payload
    IN /\ approval.state = "resolved"
       /\ DOMAIN sent = DOMAIN data \cup ApprovedFields
       /\ sent.gasPrice = (IF approveData.gasPrice = Undef THEN "0x0"
                           ELSE approveData.gasPrice)
       /\ sent.memo = (IF approveData.memo = Undef THEN ""
                       ELSE approveData.memo)
       /\ sent.gasLimit = approveData.gasLimit
       /\ sent.fees = approveData.fees
       /\ \A f \in DOMAIN data \ ApprovedFields : sent[f] = data[f]

\* the caller gave a gas price, the approval left it unset: "0x0" was sent
C21_Witness ==
  /\ req.mode = "ethereum"
  /\ signerCalls # <<>>
  /\ req.payload.gasPrice = "0x1"
  /\ approval.returned.gasPrice = Undef
  /\ signerCalls[1].message.gasPrice = "0x0"
  /\ signerCalls[1].message.to = req.payload.to

====
